---------------------------- MODULE Spec2Model ----------------------------
(***************************************************************************)
(* Model of the weather_stats package: WeatherDataset (dataset.py) and     *)
(* WeatherStats (stats.py).                                                *)
(*                                                                         *)
(* Strings are sequences of one-character strings, so that split, lower    *)
(* and string formatting are computed character by character.  A pandas    *)
(* DataFrame is a record [columns, index, rows]: the column names in table *)
(* order, the index labels (one per row) and the rows (one cell per        *)
(* column).  Cells and statistic results are records [kind, num, den].     *)
(***************************************************************************)
EXTENDS Integers, Sequences, FiniteSets, TLC

VARIABLES
    input,      \* the DataFrame handed to WeatherDataset(data)
    dataset,    \* the WeatherDataset object: [state, _data, _cities]
    ret,        \* the last call made on the objects: [op, args, value]
    raised,     \* the exception the last call propagated: [type, msg]
    gen,        \* the generator object temperature_summary returned
    yielded,    \* the entries the generator has delivered to its consumer
    cli         \* run_cli: its position, its locals, the lines last printed

vars == <<input, dataset, ret, raised, gen, yielded, cli>>

----------------------------------------------------------------------------
(* Bounds of the model *)

MaxCols == 3
MaxRows == 3

----------------------------------------------------------------------------
(* Strings *)

UpperLetters == <<"A","B","C","D","E","F","G","H","I","J","K","L","M",
                  "N","O","P","Q","R","S","T","U","V","W","X","Y","Z">>
LowerLetters == <<"a","b","c","d","e","f","g","h","i","j","k","l","m",
                  "n","o","p","q","r","s","t","u","v","w","x","y","z">>

LowerChar(c) ==
    IF \E i \in 1..Len(UpperLetters) : UpperLetters[i] = c
    THEN LowerLetters[CHOOSE i \in 1..Len(UpperLetters) : UpperLetters[i] = c]
    ELSE c

\* str.lower()
Lower(s) == [i \in 1..Len(s) |-> LowerChar(s[i])]

\* "_" in name   (Index.str.contains("_"))
ContainsUnderscore(name) == \E i \in 1..Len(name) : name[i] = "_"

\* name.split("_"): the list of the parts between the separators
RECURSIVE SplitFrom(_, _, _)
SplitFrom(name, i, part) ==
    IF i > Len(name) THEN <<part>>
    ELSE IF name[i] = "_" THEN <<part>> \o SplitFrom(name, i + 1, <<>>)
    ELSE SplitFrom(name, i + 1, Append(part, name[i]))

Split(name) == SplitFrom(name, 1, <<>>)

\* a slip: no deduplication
UniqueKeepsAll(s) == s

\* Index.unique(): the first occurrence of every element, in order
RECURSIVE Unique(_)
Unique(s) ==
    IF s = <<>> THEN <<>>
    ELSE LET init == Unique(SubSeq(s, 1, Len(s) - 1))
             last == s[Len(s)]
         IN  IF \E i \in 1..Len(init) : init[i] = last THEN init
             ELSE Append(init, last)

\* the elements of s at the positions where the boolean mask is true
RECURSIVE SelectFrom(_, _, _)
SelectFrom(s, mask, i) ==
    IF i > Len(s) THEN <<>>
    ELSE (IF mask[i] THEN <<s[i]>> ELSE <<>>) \o SelectFrom(s, mask, i + 1)

SelectIdx(s, mask) == SelectFrom(s, mask, 1)

InSeq(x, s) == \E i \in 1..Len(s) : s[i] = x

----------------------------------------------------------------------------
(* Names the code spells out *)

DATE == <<"D","A","T","E">>
DE == <<"D","E">>
DE_BILT == <<"D","E","_","B","I","L","T">>
TempMeanSuffix == <<"_","t","e","m","p","_","m","e","a","n">>

None == [type |-> "None", msg |-> <<>>]
NoFrame == [columns |-> <<>>, index |-> <<>>, rows |-> <<>>]

----------------------------------------------------------------------------
(* Cells, dates *)

Num(n) == [kind |-> "num", num |-> n, den |-> 1]
NaN == [kind |-> "nan", num |-> 0, den |-> 1]
RawDate(n) == [kind |-> "int", num |-> n, den |-> 1]

Timestamp(y, m, d) == [kind |-> "ts", year |-> y, month |-> m, day |-> d]
Ordinal(t) == t.year * 10000 + t.month * 100 + t.day

IsLeap(y) == (y % 4 = 0 /\ y % 100 # 0) \/ y % 400 = 0
DaysInMonth(y, m) ==
    IF m = 2 THEN (IF IsLeap(y) THEN 29 ELSE 28)
    ELSE IF m \in {4, 6, 9, 11} THEN 30 ELSE 31

ValidYMD(y, m, d) ==
    /\ y >= 1
    /\ m \in 1..12
    /\ d \in 1..DaysInMonth(y, m)

\* a slip: any day up to 31 taken for a date, whatever the month
ParsesYMDAnyMonthLength(cell) ==
    /\ cell.kind = "int"
    /\ cell.num \div 10000 >= 1
    /\ (cell.num \div 100) % 100 \in 1..12
    /\ cell.num % 100 \in 1..31

\* pd.to_datetime(n, format='%Y%m%d') of one eight-digit integer
YearOf(n) == n \div 10000
MonthOf(n) == (n \div 100) % 100
DayOf(n) == n % 100
ParsesYMD(cell) == cell.kind = "int" /\ ValidYMD(YearOf(cell.num), MonthOf(cell.num), DayOf(cell.num))
ToDatetimeYMD(cell) == Timestamp(YearOf(cell.num), MonthOf(cell.num), DayOf(cell.num))

----------------------------------------------------------------------------
(* DataFrame *)

ColumnPos(df, name) == CHOOSE j \in 1..Len(df.columns) : df.columns[j] = name
HasColumnDF(df, name) == InSeq(name, df.columns)
\* df[name]: the cells of one column, in row order
Column(df, name) == [i \in 1..Len(df.rows) |-> df.rows[i][ColumnPos(df, name)]]

DropPos(s, j) == SubSeq(s, 1, j - 1) \o SubSeq(s, j + 1, Len(s))

\* df.set_index('DATE'): the column becomes the index and is no longer a column
SetIndex(df, name) ==
    LET j == ColumnPos(df, name)
    IN  [columns |-> DropPos(df.columns, j),
         index   |-> [i \in 1..Len(df.rows) |-> df.rows[i][j]],
         rows    |-> [i \in 1..Len(df.rows) |-> DropPos(df.rows[i], j)]]

\* df[mask]: the rows at which the boolean mask is true, in row order
MaskRows(df, mask) ==
    [columns |-> df.columns,
     index   |-> SelectIdx(df.index, mask),
     rows    |-> SelectIdx(df.rows, mask)]

\* a slip: the day of the month taken for the month
IndexMonthFromDay(df) == [i \in 1..Len(df.index) |-> df.index[i].day]

\* df.index.month, df.index.year: one number per row
IndexMonth(df) == [i \in 1..Len(df.index) |-> df.index[i].month]
IndexYear(df) == [i \in 1..Len(df.index) |-> df.index[i].year]

\* df.iloc[lo:hi] with 0-based, half-open positions
ILocSlice(df, lo, hi) ==
    [columns |-> df.columns,
     index   |-> SubSeq(df.index, lo + 1, hi),
     rows    |-> SubSeq(df.rows, lo + 1, hi)]

----------------------------------------------------------------------------
(* WeatherDataset (dataset.py) *)

Exception(type, msg) == [type |-> type, msg |-> msg]

\* a slip: the last part of the split instead of the first
CityPrefixLast(name) == Split(name)[Len(Split(name))]

\* the substring before the first "_":  .str.split("_").str[0]
CityPrefix(name) == Split(name)[1]

\* the special case of get_cities' loop
RemapCity(c) == IF c = DE THEN DE_BILT ELSE c

\* columns[columns.str.contains("_")].str.split("_").str[0].unique().tolist()
DerivedPrefixes(columns) ==
    LET named == SelectSeq(columns, ContainsUnderscore)
    IN  Unique([i \in 1..Len(named) |-> CityPrefix(named[i])])

get_cities(data) ==
    LET cities == DerivedPrefixes(data.columns)
    IN  [i \in 1..Len(cities) |-> RemapCity(cities[i])]

has_city(self, city_name) == InSeq(city_name, self._cities)

get_column_names(self) == self._data.columns

\* return self._data
get_data(self) == self._data

has_column(self, column) == InSeq(column, self._data.columns)

NoDataset == [state |-> "new", _data |-> NoFrame, _cities |-> <<>>]

\* what __init__ raises, None when it completes
InitError(data) ==
    IF ~HasColumnDF(data, DATE) THEN Exception("KeyError", <<"DATE">>)
    ELSE IF \E i \in 1..Len(data.rows) : ~ParsesYMD(Column(data, DATE)[i])
         THEN Exception("ValueError", <<"to_datetime: time data does not match format '%Y%m%d'">>)
         ELSE None

\* data['DATE'] = pd.to_datetime(data['DATE'], format='%Y%m%d'), in place
WithParsedDates(data) ==
    LET j == ColumnPos(data, DATE)
    IN  [data EXCEPT !.rows =
            [i \in 1..Len(data.rows) |->
                [data.rows[i] EXCEPT ![j] = ToDatetimeYMD(data.rows[i][j])]]]

\* a slip: the cache filled with the prefixes, before the special case
CachedPrefixes(data) == DerivedPrefixes(data.columns)

\* self._cities = self.get_cities()
CachedCities(data) == get_cities(data)

NewDataset(data) ==
    LET indexed == SetIndex(WithParsedDates(data), DATE)
    IN  [state |-> "ready", _data |-> indexed, _cities |-> CachedCities(indexed)]

Call(op, args, value) == [op |-> op, args |-> args, value |-> value]

\* dataset = WeatherDataset(input)
Construct ==
    /\ dataset.state = "new"
    /\ LET e == InitError(input)
       IN  IF e # None
           THEN /\ dataset' = [dataset EXCEPT !.state = "failed"]
                /\ input' = input
                /\ raised' = e
           ELSE /\ dataset' = NewDataset(input)
                /\ input' = WithParsedDates(input)
                /\ raised' = None
    /\ ret' = Call("__init__", <<>>, None)
    /\ UNCHANGED <<gen, yielded, cli>>

Ready == dataset.state = "ready"

CallGetCities ==
    /\ Ready
    /\ ret' = Call("get_cities", <<>>, get_cities(dataset._data))
    /\ raised' = None
    /\ UNCHANGED <<input, dataset, gen, yielded, cli>>

\* dataset.has_city(city_name)
CallHasCity(city_name) ==
    /\ Ready
    /\ ret' = Call("has_city", <<city_name>>, has_city(dataset, city_name))
    /\ raised' = None
    /\ UNCHANGED <<input, dataset, gen, yielded, cli>>

\* self._data[self._data.index.month == month]
filter_by_month(self, month) ==
    MaskRows(self._data, [i \in 1..Len(self._data.index) |-> IndexMonth(self._data)[i] = month])

\* self._data[self._data.index.year == year]
filter_by_year(self, year) ==
    MaskRows(self._data, [i \in 1..Len(self._data.index) |-> IndexYear(self._data)[i] = year])

filter_by_month_and_year(self, month, year) ==
    MaskRows(self._data, [i \in 1..Len(self._data.index) |->
        IndexMonth(self._data)[i] = month /\ IndexYear(self._data)[i] = year])

(* pd.to_datetime(s) of a date string: the ISO form YYYY-MM-DD is the one    *)
(* modelled; any other string of the input pool is not a date.              *)
Digits == <<"0","1","2","3","4","5","6","7","8","9">>
IsDigit(c) == \E i \in 1..Len(Digits) : Digits[i] = c
DigitVal(c) == (CHOOSE i \in 1..Len(Digits) : Digits[i] = c) - 1

RECURSIVE DigitsVal(_)
DigitsVal(s) ==
    IF s = <<>> THEN 0
    ELSE DigitsVal(SubSeq(s, 1, Len(s) - 1)) * Len(Digits) + DigitVal(s[Len(s)])

IsIsoShape(s) ==
    /\ Len(s) = 10
    /\ \A i \in 1..Len(s) : IF i \in {5, 8} THEN s[i] = "-" ELSE IsDigit(s[i])

IsoYear(s) == DigitsVal(SubSeq(s, 1, 4))
IsoMonth(s) == DigitsVal(SubSeq(s, 6, 7))
IsoDay(s) == DigitsVal(SubSeq(s, 9, 10))

ParsesDate(s) == IsIsoShape(s) /\ ValidYMD(IsoYear(s), IsoMonth(s), IsoDay(s))
ToDatetime(s) == Timestamp(IsoYear(s), IsoMonth(s), IsoDay(s))

(* self._data.loc[start:end] on the DatetimeIndex, with Timestamp bounds:   *)
(* Index.slice_indexer -> slice_locs -> get_slice_bound for each bound.     *)
IsMonotonicIncreasing(index) ==
    \A i \in 1..(Len(index) - 1) : Ordinal(index[i]) <= Ordinal(index[i + 1])
IsMonotonicDecreasing(index) ==
    \A i \in 1..(Len(index) - 1) : Ordinal(index[i]) >= Ordinal(index[i + 1])

\* the 1-based positions get_loc finds the label at
Positions(index, label) == {i \in 1..Len(index) : index[i] = label}

MinOf(S) == CHOOSE x \in S : \A y \in S : x <= y
MaxOf(S) == CHOOSE x \in S : \A y \in S : x >= y

\* a boolean mask lib.maybe_booleans_to_slice can turn into a slice
IsContiguous(S) == MaxOf(S) - MinOf(S) + 1 = Cardinality(S)

CountBelow(index, label) == Cardinality({i \in 1..Len(index) : Ordinal(index[i]) < Ordinal(label)})
CountAtMost(index, label) == Cardinality({i \in 1..Len(index) : Ordinal(index[i]) <= Ordinal(label)})

\* Index._searchsorted_monotonic(label, side), for a monotonic index
SearchSortedMonotonic(index, label, side) ==
    IF IsMonotonicIncreasing(index)
    THEN (IF side = "left" THEN CountBelow(index, label) ELSE CountAtMost(index, label))
    ELSE \* decreasing: searched reversed with the other side, len(self) - pos
         Len(index) - (IF side = "left" THEN CountAtMost(index, label)
                                        ELSE CountBelow(index, label))

\* Index.get_slice_bound(label, side): [ok, pos], ok = FALSE for KeyError
GetSliceBound(index, label, side) ==
    LET found == Positions(index, label)
    IN  IF found = {}
        THEN IF IsMonotonicIncreasing(index) \/ IsMonotonicDecreasing(index)
             THEN [ok |-> TRUE, pos |-> SearchSortedMonotonic(index, label, side)]
             ELSE [ok |-> FALSE, pos |-> 0]
        ELSE IF IsContiguous(found)
             THEN [ok |-> TRUE,
                   pos |-> IF side = "left" THEN MinOf(found) - 1 ELSE MaxOf(found)]
             ELSE [ok |-> FALSE, pos |-> 0]

\* what filter_by_date_range raises, None when it returns
DateRangeError(self, start_date, end_date) ==
    IF ~ParsesDate(start_date) \/ ~ParsesDate(end_date)
    THEN Exception("ValueError", <<"to_datetime: unknown datetime string format">>)
    ELSE IF ~GetSliceBound(self._data.index, ToDatetime(start_date), "left").ok
         THEN Exception("KeyError", <<"Timestamp", start_date>>)
         ELSE IF ~GetSliceBound(self._data.index, ToDatetime(end_date), "right").ok
              THEN Exception("KeyError", <<"Timestamp", end_date>>)
              ELSE None

filter_by_date_range(self, start_date, end_date) ==
    LET start == ToDatetime(start_date)
        end == ToDatetime(end_date)
    IN  ILocSlice(self._data,
                  GetSliceBound(self._data.index, start, "left").pos,
                  GetSliceBound(self._data.index, end, "right").pos)

Spring == <<"s","p","r","i","n","g">>
Summer == <<"s","u","m","m","e","r">>
Fall == <<"f","a","l","l">>
Winter == <<"w","i","n","t","e","r">>

\* a slip: the last branch taken for every other token
SeasonErrorNever(season) == None

\* what filter_by_season raises, None when it returns
SeasonError(season) ==
    IF Lower(season) \in {Spring, Summer, Fall, Winter} THEN None
    ELSE Exception("ValueError",
            <<"Invalid season. Must be one of: 'spring', 'summer', 'fall', 'winter'.">>)

\* a slip: & for |
WinterMonthConjoined(m) == m = 12 /\ m <= 2

\* (index.month == 12) | (index.month <= 2)
WinterMonth(m) == m = 12 \/ m <= 2

filter_by_season(self, season) ==
    LET s == Lower(season)
        month == IndexMonth(self._data)
        rows == 1..Len(self._data.index)
    IN  IF s = Spring THEN MaskRows(self._data, [i \in rows |-> month[i] >= 3 /\ month[i] <= 5])
        ELSE IF s = Summer THEN MaskRows(self._data, [i \in rows |-> month[i] >= 6 /\ month[i] <= 8])
        ELSE IF s = Fall THEN MaskRows(self._data, [i \in rows |-> month[i] >= 9 /\ month[i] <= 11])
        ELSE MaskRows(self._data, [i \in rows |-> WinterMonth(month[i])])

\* a dataset call that returns `value` unless `e` is raised
Outcome(op, args, e, value) ==
    /\ Ready
    /\ raised' = e
    /\ ret' = Call(op, args, IF e = None THEN value ELSE None)
    /\ UNCHANGED <<input, dataset, gen, yielded, cli>>

CallFilterByMonth(month) ==
    Outcome("filter_by_month", <<month>>, None, filter_by_month(dataset, month))

CallFilterByYear(year) ==
    Outcome("filter_by_year", <<year>>, None, filter_by_year(dataset, year))

CallFilterByMonthAndYear(month, year) ==
    Outcome("filter_by_month_and_year", <<month, year>>, None,
            filter_by_month_and_year(dataset, month, year))

CallFilterByDateRange(start_date, end_date) ==
    Outcome("filter_by_date_range", <<start_date, end_date>>,
            DateRangeError(dataset, start_date, end_date),
            filter_by_date_range(dataset, start_date, end_date))

CallFilterBySeason(season) ==
    Outcome("filter_by_season", <<season>>, SeasonError(season),
            filter_by_season(dataset, season))

----------------------------------------------------------------------------
(* Arithmetic of the statistics: exact rationals stand for the floats *)

Abs(n) == IF n < 0 THEN -n ELSE n

RECURSIVE Gcd(_, _)
Gcd(a, b) == IF b = 0 THEN a ELSE Gcd(b, a % b)

\* the number n/d, d > 0, in lowest terms
Rat(n, d) ==
    LET g == Gcd(Abs(n), d)
    IN  [kind |-> "num", num |-> n \div g, den |-> d \div g]

IsSquare(n) == \E r \in 0..n : r * r = n
Root(n) == CHOOSE r \in 0..n : r * r = n

\* the square root of the number n/d >= 0
Sqrt(n, d) ==
    LET q == Rat(n, d)
    IN  IF IsSquare(q.num) /\ IsSquare(q.den)
        THEN [kind |-> "num", num |-> Root(q.num), den |-> Root(q.den)]
        ELSE [kind |-> "sqrt", num |-> q.num, den |-> q.den]

RECURSIVE Sum(_)
Sum(s) == IF s = <<>> THEN 0 ELSE s[1] + Sum(Tail(s))

RECURSIVE SumSq(_)
SumSq(s) == IF s = <<>> THEN 0 ELSE s[1] * s[1] + SumSq(Tail(s))

SeqMin(s) == MinOf({s[i] : i \in 1..Len(s)})
SeqMax(s) == MaxOf({s[i] : i \in 1..Len(s)})

RECURSIVE Sorted(_)
Sorted(s) ==
    IF s = <<>> THEN <<>>
    ELSE LET i == CHOOSE k \in 1..Len(s) : s[k] = SeqMin(s)
         IN  <<s[i]>> \o Sorted(DropPos(s, i))

Count(s, x) == Cardinality({i \in 1..Len(s) : s[i] = x})

----------------------------------------------------------------------------
(* WeatherStats (stats.py) *)

\* data=None
NoData == [none |-> TRUE]

\* a slip: the override ignored
TableInUseOwn(self, data) == self._data

\* df = data if data is not None else self._data
TableInUse(self, data) == IF data # NoData THEN data ELSE self._data

\* Series of the non-missing numbers of df[column] (pandas skips NaN)
Values(df, column) ==
    LET cells == Column(df, column)
        kept == SelectSeq(cells, LAMBDA c : c.kind = "num")
    IN  [i \in 1..Len(kept) |-> kept[i].num]

\* what _validate_column raises, None when it returns
_validate_column(self, column, data) ==
    LET df == TableInUse(self, data)
    IN  IF ~HasColumnDF(df, column)
        THEN Exception("ValueError", <<"Column '", column, "' not found in dataset">>)
        ELSE None

mean(self, column, data) ==
    LET x == Values(TableInUse(self, data), column)
    IN  IF x = <<>> THEN NaN ELSE Rat(Sum(x), Len(x))

median(self, column, data) ==
    LET x == Sorted(Values(TableInUse(self, data), column))
        n == Len(x)
    IN  IF n = 0 THEN NaN
        ELSE IF n % 2 = 1 THEN Num(x[(n + 1) \div 2])
        ELSE Rat(x[n \div 2] + x[n \div 2 + 1], 2)

min(self, column, data) ==
    LET x == Values(TableInUse(self, data), column)
    IN  IF x = <<>> THEN NaN ELSE Num(SeqMin(x))

max(self, column, data) ==
    LET x == Values(TableInUse(self, data), column)
    IN  IF x = <<>> THEN NaN ELSE Num(SeqMax(x))

\* Series.std(): the sample standard deviation, ddof = 1
std_dev(self, column, data) ==
    LET x == Values(TableInUse(self, data), column)
        n == Len(x)
    IN  IF n < 2 THEN NaN
        ELSE Sqrt(n * SumSq(x) - Sum(x) * Sum(x), n * (n - 1))

Minus(a, b) ==
    IF a.kind = "nan" \/ b.kind = "nan" THEN NaN
    ELSE Rat(a.num * b.den - b.num * a.den, a.den * b.den)

\* return self.max(column, df) - self.min(column, df)
range(self, column, data) ==
    LET df == TableInUse(self, data)
    IN  Minus(max(self, column, df), min(self, column, df))

\* a slip: max and min called without the table, so checked against self._data
RangeErrorOwnTable(self, column, data) ==
    IF _validate_column(self, column, data) # None
    THEN _validate_column(self, column, data)
    ELSE _validate_column(self, column, NoData)

\* what range raises: its own validation, then that of max, then that of min
RangeError(self, column, data) ==
    LET df == TableInUse(self, data)
    IN  IF _validate_column(self, column, data) # None
        THEN _validate_column(self, column, data)
        ELSE IF _validate_column(self, column, df) # None
             THEN _validate_column(self, column, df)
             ELSE None

\* a slip: the most frequent value met first, the modes left unsorted
modeFirstSeen(self, column, data) ==
    LET x == Values(TableInUse(self, data), column)
        top == {v \in {x[i] : i \in 1..Len(x)} :
                    \A i \in 1..Len(x) : Count(x, v) >= Count(x, x[i])}
        modes == SelectSeq(Unique(x), LAMBDA v : v \in top)
    IN  IF modes = <<>> THEN NaN ELSE Num(modes[1])

\* Series.mode(): the most frequent values, sorted; float(modes.iloc[0])
mode(self, column, data) ==
    LET x == Values(TableInUse(self, data), column)
        top == {v \in {x[i] : i \in 1..Len(x)} :
                    \A i \in 1..Len(x) : Count(x, v) >= Count(x, x[i])}
        modes == Sorted(SelectSeq(Unique(x), LAMBDA v : v \in top))
    IN  IF modes = <<>> THEN NaN ELSE Num(modes[1])

StatOps == {"mean", "median", "min", "max", "std_dev", "range", "mode"}

StatError(op, self, column, data) ==
    IF op = "range" THEN RangeError(self, column, data)
    ELSE _validate_column(self, column, data)

StatValue(op, self, column, data) ==
    CASE op = "mean" -> mean(self, column, data)
      [] op = "median" -> median(self, column, data)
      [] op = "min" -> min(self, column, data)
      [] op = "max" -> max(self, column, data)
      [] op = "std_dev" -> std_dev(self, column, data)
      [] op = "range" -> range(self, column, data)
      [] op = "mode" -> mode(self, column, data)

\* stats.<op>(column, data)
CallStat(op, column, data) ==
    /\ Ready
    /\ gen.state = "none"
    /\ LET e == StatError(op, dataset, column, data)
       IN  /\ raised' = e
           /\ ret' = Call(op, <<column, data>>,
                          IF e = None THEN StatValue(op, dataset, column, data) ELSE None)
    /\ UNCHANGED <<input, dataset, gen, yielded, cli>>

\* the yield statements of temperature_summary, in program order
SummaryYields ==
    << <<"Mean", "mean">>, <<"Median", "median">>, <<"Min", "min">>, <<"Max", "max">>,
       <<"Standard deviation", "std_dev">>, <<"Range", "range">>, <<"Mode", "mode">> >>

\* base = f"{city}_temp_mean"
BaseColumn(city) == city \o TempMeanSuffix

NoGen == [state |-> "none", city |-> <<>>, data |-> NoData, pc |-> 0]

\* the generator object a call creates: the body does not run before next()
NewGenerator(city, data) == [state |-> "suspended", city |-> city, data |-> data, pc |-> 0]

\* a slip: data not handed on to the statistic
YieldDataOmitted(g) == NoData

\* the argument handed to the statistic at the yield the generator is at
YieldData(g) == g.data

\* g = stats.temperature_summary(city, data)
CallTemperatureSummary(city, data) ==
    /\ Ready
    /\ gen.state # "suspended"
    /\ gen' = NewGenerator(city, data)
    /\ yielded' = <<>>
    /\ raised' = None
    /\ ret' = Call("temperature_summary", <<city, data>>, None)
    /\ UNCHANGED <<input, dataset, cli>>

\* a slip: the failure of a statistic caught, the sequence ended instead
GenNextSwallows ==
    /\ gen.state = "suspended"
    /\ gen' = [gen EXCEPT !.state = "done"]
    /\ raised' = Exception("StopIteration", <<>>)
    /\ ret' = Call("next", <<>>, None)
    /\ UNCHANGED <<input, dataset, yielded, cli>>

\* next(g): run the body up to its next yield, its end, or an exception
GenNext ==
    /\ gen.state = "suspended"
    /\ IF gen.pc = Len(SummaryYields)
       THEN /\ gen' = [gen EXCEPT !.state = "done"]
            /\ raised' = Exception("StopIteration", <<>>)
            /\ yielded' = yielded
       ELSE LET stmt == SummaryYields[gen.pc + 1]
                base == BaseColumn(gen.city)
                e == StatError(stmt[2], dataset, base, YieldData(gen))
            IN  IF e # None
                THEN /\ gen' = [gen EXCEPT !.state = "raised"]
                     /\ raised' = e
                     /\ yielded' = yielded
                ELSE /\ gen' = [gen EXCEPT !.pc = gen.pc + 1]
                     /\ raised' = None
                     /\ yielded' = Append(yielded,
                            <<stmt[1], StatValue(stmt[2], dataset, base, YieldData(gen))>>)
    /\ ret' = Call("next", <<>>, None)
    /\ UNCHANGED <<input, dataset, cli>>

----------------------------------------------------------------------------
(* The command-line helper (ws_helper.py) *)

UpperChar(c) ==
    IF \E i \in 1..Len(LowerLetters) : LowerLetters[i] = c
    THEN UpperLetters[CHOOSE i \in 1..Len(LowerLetters) : LowerLetters[i] = c]
    ELSE c

IsLetter(c) == \E i \in 1..Len(UpperLetters) : UpperLetters[i] = c \/ LowerLetters[i] = c

\* str.upper()
Upper(s) == [i \in 1..Len(s) |-> UpperChar(s[i])]

\* str.title(): a letter that follows no letter is put in upper case, every
\* other letter in lower case
Title(s) ==
    [i \in 1..Len(s) |->
        IF i = 1 \/ ~IsLetter(s[i - 1]) THEN UpperChar(s[i]) ELSE LowerChar(s[i])]

\* str.strip() of the blanks that int() ignores around the literal
RECURSIVE Strip(_)
Strip(s) ==
    IF s = <<>> THEN s
    ELSE IF Head(s) = " " THEN Strip(Tail(s))
    ELSE IF s[Len(s)] = " " THEN Strip(SubSeq(s, 1, Len(s) - 1))
    ELSE s

\* the digits of an integer literal, its sign taken off
Unsigned(s) ==
    IF Strip(s) # <<>> /\ Head(Strip(s)) \in {"+", "-"} THEN Tail(Strip(s)) ELSE Strip(s)

\* int(raw) returns: blanks, an optional sign, one digit or more
IntParses(raw) ==
    /\ Unsigned(raw) # <<>>
    /\ \A i \in 1..Len(Unsigned(raw)) : IsDigit(Unsigned(raw)[i])

IntVal(raw) ==
    IF Head(Strip(raw)) = "-" THEN 0 - DigitsVal(Unsigned(raw)) ELSE DigitsVal(Unsigned(raw))

Q == <<"Q">>

\* the parser run_cli hands to ask_until_valid at each of its prompts
Parser(prompt) ==
    CASE prompt = "city" -> "upper"
      [] prompt \in {"option", "month", "year"} -> "int"
      [] prompt \in {"start", "end"} -> "to_datetime"
      [] prompt = "season" -> "title"

\* the validator handed over at each prompt; the date prompts pass None
Validator(prompt) == IF prompt \in {"start", "end"} THEN "None" ELSE prompt

ErrorMsg(prompt) ==
    CASE prompt = "city" -> "City not found. Please try again."
      [] prompt = "option" -> "Enter a number between 0 and 6."
      [] prompt = "month" -> "Month must be 1-12"
      [] prompt = "year" -> "Year must be between 2000 and 2010"
      [] prompt \in {"start", "end"} -> "Invalid date format"
      [] prompt = "season" -> "Invalid season"

\* parser(raw) returns, it does not raise
Parses(parser, raw) ==
    CASE parser = "int" -> IntParses(raw)
      [] parser = "to_datetime" -> ParsesDate(raw)
      [] OTHER -> TRUE

\* val = parser(raw)
Parse(parser, raw) ==
    CASE parser = "upper" -> Upper(raw)
      [] parser = "int" -> IntVal(raw)
      [] parser = "to_datetime" -> ToDatetime(raw)
      [] parser = "title" -> Title(raw)

\* validator(val), for the lambdas of run_cli
Validates(validator, self, val) ==
    CASE validator = "city" -> val = Q \/ has_city(self, val)
      [] validator = "option" -> 0 <= val /\ val <= 6
      [] validator = "month" -> 1 <= val /\ val <= 12
      [] validator = "year" -> 2000 <= val /\ val <= 2010
      [] validator = "season" -> val \in {Title(Winter), Title(Spring), Title(Summer), Title(Fall)}

NoVal == <<>>

\* a slip: the validator never consulted
ask_until_valid_unvalidated(self, parser, validator, raw) ==
    IF ~Parses(parser, raw)
    THEN [returned |-> FALSE, val |-> NoVal]
    ELSE [returned |-> TRUE, val |-> Parse(parser, raw)]

\* one turn of the loop of ask_until_valid on the line `raw`: the value
\* returned, or a failure that prints error_msg and prompts again
ask_until_valid(self, parser, validator, raw) ==
    IF ~Parses(parser, raw)
    THEN [returned |-> FALSE, val |-> NoVal]
    ELSE IF validator # "None" /\ ~Validates(validator, self, Parse(parser, raw))
         THEN [returned |-> FALSE, val |-> Parse(parser, raw)]
         ELSE [returned |-> TRUE, val |-> Parse(parser, raw)]

\* a printed line: its fixed text and the name formatted into it
Line(text, arg) == [text |-> text, arg |-> arg]

Menu == Line("Options:", <<>>)

NoCli ==
    [pc |-> "idle", city |-> <<>>, choice |-> 0, args |-> <<>>, filtered |-> NoData,
     prompt |-> "", raw |-> <<>>, val |-> NoVal, ask |-> "none", printed |-> <<>>]

AskPcs == {"city", "option", "month", "year", "start", "end", "season"}

\* run_cli(dataset, stats) up to its first prompt: the cities are listed
RunCli ==
    /\ Ready
    /\ cli.pc = "idle"
    /\ cli' = [cli EXCEPT !.pc = "city",
                          !.printed = [i \in 1..Len(get_cities(dataset._data)) |->
                                            Line("", get_cities(dataset._data)[i])]]
    /\ raised' = None
    /\ UNCHANGED <<input, dataset, ret, gen, yielded>>

\* where run_cli goes when the prompt it is at has returned val
Accepted(c, val) ==
    CASE c.pc = "city" ->
            IF val = Q
            THEN [c EXCEPT !.pc = "returned", !.printed = <<Line("Goodbye", <<>>)>>]
            ELSE [c EXCEPT !.pc = "option", !.city = val, !.printed = <<Menu>>]
      [] c.pc = "option" ->
            [c EXCEPT !.choice = val, !.filtered = NoData, !.args = <<>>, !.printed = <<>>,
                      !.pc = CASE val = 0 -> "city"
                               [] val \in {2, 4} -> "month"
                               [] val = 3 -> "year"
                               [] val = 5 -> "start"
                               [] val = 6 -> "season"
                               [] OTHER -> "summary"]
      [] c.pc = "month" ->
            [c EXCEPT !.args = <<val>>, !.printed = <<>>,
                      !.pc = IF c.choice = 4 THEN "year" ELSE "filter"]
      [] c.pc = "start" ->
            [c EXCEPT !.args = <<val>>, !.printed = <<>>, !.pc = "end"]
      [] c.pc \in {"year", "end", "season"} ->
            [c EXCEPT !.args = Append(c.args, val), !.printed = <<>>, !.pc = "filter"]

\* raw = input(prompt) at the prompt run_cli is at, and the turn of
\* ask_until_valid on it
Ask(raw) ==
    /\ Ready
    /\ cli.pc \in AskPcs
    /\ LET r == ask_until_valid(dataset, Parser(cli.pc), Validator(cli.pc), raw)
           read == [cli EXCEPT !.prompt = cli.pc, !.raw = raw, !.val = r.val]
       IN  IF r.returned
           THEN cli' = Accepted([read EXCEPT !.ask = "returned"], r.val)
           ELSE cli' = [read EXCEPT !.ask = "again",
                                    !.printed = <<Line(ErrorMsg(cli.pc), <<>>)>>]
    /\ raised' = None
    /\ UNCHANGED <<input, dataset, ret, gen, yielded>>

\* self._data.loc[start:end] with Timestamp bounds: the KeyError of a bound
\* that cannot be placed, None otherwise
LocSliceError(self, start, end) ==
    IF ~GetSliceBound(self._data.index, start, "left").ok
    THEN Exception("KeyError", <<"Timestamp", start>>)
    ELSE IF ~GetSliceBound(self._data.index, end, "right").ok
         THEN Exception("KeyError", <<"Timestamp", end>>)
         ELSE None

LocSlice(self, start, end) ==
    ILocSlice(self._data,
              GetSliceBound(self._data.index, start, "left").pos,
              GetSliceBound(self._data.index, end, "right").pos)

\* what the filter call of the chosen option raises, None when it returns
FilterError(self, choice, args) ==
    CASE choice = 5 -> LocSliceError(self, args[1], args[2])
      [] choice = 6 -> SeasonError(args[1])
      [] OTHER -> None

FilterValue(self, choice, args) ==
    CASE choice = 2 -> filter_by_month(self, args[1])
      [] choice = 3 -> filter_by_year(self, args[1])
      [] choice = 4 -> filter_by_month_and_year(self, args[1], args[2])
      [] choice = 5 -> LocSlice(self, args[1], args[2])
      [] choice = 6 -> filter_by_season(self, args[1])

\* the filter call inside the try block, and its except ValueError clause
CliFilter ==
    /\ Ready
    /\ cli.pc = "filter"
    /\ LET e == FilterError(dataset, cli.choice, cli.args)
       IN  IF e = None
           THEN /\ cli' = [cli EXCEPT !.pc = "summary", !.printed = <<>>,
                              !.filtered = FilterValue(dataset, cli.choice, cli.args)]
                /\ raised' = None
           ELSE IF e.type = "ValueError"
                THEN /\ cli' = [cli EXCEPT !.pc = "option",
                                   !.printed = <<Line("Filter error", <<>>), Menu>>]
                     /\ raised' = None
                ELSE /\ cli' = [cli EXCEPT !.pc = "escaped", !.printed = <<>>]
                     /\ raised' = e
    /\ UNCHANGED <<input, dataset, ret, gen, yielded>>

\* the for loop over the generator, from its statement k + 1 on: the lines
\* printed, and the exception that ends the loop, None when it runs out
RECURSIVE Consume(_, _, _)
Consume(self, g, k) ==
    IF k = Len(SummaryYields) THEN [raised |-> None, lines |-> <<>>]
    ELSE LET stmt == SummaryYields[k + 1]
             e == StatError(stmt[2], self, BaseColumn(g.city), YieldData(g))
         IN  IF e # None THEN [raised |-> e, lines |-> <<>>]
             ELSE [raised |-> Consume(self, g, k + 1).raised,
                   lines |-> <<Line(stmt[1], <<>>)>> \o Consume(self, g, k + 1).lines]

\* the summary and its printing, after the try block: nothing here catches
CliSummary ==
    /\ Ready
    /\ cli.pc = "summary"
    /\ LET r == Consume(dataset, NewGenerator(cli.city, cli.filtered), 0)
           shown == <<Line("Temperature statistics for", cli.city)>> \o r.lines
       IN  IF r.raised = None
           THEN cli' = [cli EXCEPT !.pc = "option", !.printed = shown \o <<Menu>>]
           ELSE cli' = [cli EXCEPT !.pc = "escaped", !.printed = shown]
    /\ raised' = Consume(dataset, NewGenerator(cli.city, cli.filtered), 0).raised
    /\ UNCHANGED <<input, dataset, ret, gen, yielded>>

----------------------------------------------------------------------------
(* Inputs *)

UT == <<"U","T">>
DEN == <<"D","E","N">>
MONTH == <<"M","O","N","T","H">>
UT_temp_mean == UT \o TempMeanSuffix
UT_temp_max == UT \o <<"_","t","e","m","p","_","m","a","x">>
DE_temp_mean == DE \o TempMeanSuffix
DE_BILT_temp_mean == DE_BILT \o TempMeanSuffix
DEN_x == DEN \o <<"_","x">>

ColumnPool == {DE_temp_mean, DE_BILT_temp_mean, UT_temp_mean, DEN_x, MONTH}

\* the sequences of at most n distinct elements of S
SeqsUpTo(S, n) == UNION {[1..k -> S] : k \in 0..n}
DistinctSeqsUpTo(S, n) ==
    {q \in SeqsUpTo(S, n) : \A i, j \in 1..Len(q) : i # j => q[i] # q[j]}

Frame(columns, rows) ==
    [columns |-> columns, index |-> [i \in 1..Len(rows) |-> i - 1], rows |-> rows]

\* tables that differ in their columns: one row, dated 2020-01-01
ColumnTables ==
    {Frame(<<DATE>> \o cols, << <<RawDate(20200101)>> \o [j \in 1..Len(cols) |-> Num(j)] >>) :
        cols \in DistinctSeqsUpTo(ColumnPool, MaxCols)}

\* tables without a DATE column
UndatedTables ==
    {Frame(cols, << [j \in 1..Len(cols) |-> Num(j)] >>) :
        cols \in DistinctSeqsUpTo({UT_temp_mean, MONTH}, 1)}

\* raw DATE cells: two seasons, January in two years, and 30 February
RawDatePool == {20200115, 20200401, 20190115, 20191215, 20200230}

\* tables that differ in their rows' dates and in the order of the rows
DateTables ==
    {Frame(<<DATE, UT_temp_mean>>, [i \in 1..Len(dates) |-> <<RawDate(dates[i]), Num(i)>>]) :
        dates \in SeqsUpTo(RawDatePool, MaxRows)}

CityProbes == {DE, DE_BILT, UT, DEN, <<>>}

Iso(y4, m2, d2) == y4 \o <<"-">> \o m2 \o <<"-">> \o d2
Y2019 == <<"2","0","1","9">>
Y2020 == <<"2","0","2","0">>
DateStrings ==
    {Iso(Y2019, <<"1","2">>, <<"1","5">>), Iso(Y2020, <<"0","3">>, <<"0","1">>),
     Iso(Y2020, <<"0","4">>, <<"0","1">>), Iso(Y2020, <<"0","2">>, <<"3","0">>)}

SeasonTokens ==
    {Winter, <<"W","I","N","T","E","R">>, <<"W","i","n","t","e","r">>,
     <<"S","p","r","i","n","g">>, Summer, <<"F","A","L","L">>,
     <<"b","o","g","u","s">>, <<>>}

MonthArgs == {1, 12, 13}
YearArgs == {2019, 2020}

----------------------------------------------------------------------------
(* The dataset: construction, city queries and filters *)

InitWith(tables) ==
    /\ input \in tables
    /\ dataset = NoDataset
    /\ ret = Call("", <<>>, None)
    /\ raised = None
    /\ gen = NoGen
    /\ yielded = <<>>
    /\ cli = NoCli

Init == InitWith(ColumnTables \cup UndatedTables \cup DateTables)

Next ==
    \/ Construct
    \/ CallGetCities
    \/ \E c \in CityProbes : CallHasCity(c)
    \/ \E m \in MonthArgs : CallFilterByMonth(m)
    \/ \E y \in YearArgs : CallFilterByYear(y)
    \/ \E m \in MonthArgs, y \in YearArgs : CallFilterByMonthAndYear(m, y)
    \/ \E a, b \in DateStrings : CallFilterByDateRange(a, b)
    \/ \E t \in SeasonTokens : CallFilterBySeason(t)

Spec == Init /\ [][Next]_vars

----------------------------------------------------------------------------
(* The statistics engine over one dataset *)

CellPool == {Num(1), Num(2), NaN}

\* the raw date of row i: odd rows in January 2020, even rows in February
StatsDate(i) == IF i % 2 = 1 THEN 20200100 + i ELSE 20200200 + i

\* tables of one temperature column, differing in its name and its cells
StatsTables ==
    {Frame(<<DATE, c>>, [i \in 1..Len(cells) |-> <<RawDate(StatsDate(i)), cells[i]>>]) :
        c \in {UT_temp_mean, DE_temp_mean}, cells \in SeqsUpTo(CellPool, MaxRows)}

\* views of another dataset, one with and one without UT_temp_mean
ForeignViews ==
    {[columns |-> <<c>>,
      index |-> <<Timestamp(2021, 7, 1), Timestamp(2021, 7, 2)>>,
      rows |-> << <<Num(2)>>, <<Num(5)>> >>] : c \in {UT_temp_mean, UT_temp_max}}

\* the tables a caller passes as data: None, views of the dataset, foreign views
Overrides ==
    {NoData} \cup {filter_by_month(dataset, m) : m \in {1, 2}} \cup ForeignViews

StatColumns == {UT_temp_mean, DE_temp_mean}
SummaryCities == {UT, DE_BILT}

InitStats == InitWith(StatsTables)

NextStats ==
    \/ Construct
    \/ \E op \in StatOps, c \in StatColumns, d \in Overrides : CallStat(op, c, d)
    \/ \E c \in SummaryCities, d \in Overrides : CallTemperatureSummary(c, d)
    \/ GenNext

SpecStats == InitStats /\ [][NextStats]_vars

----------------------------------------------------------------------------
(* The command-line loop over one dataset *)

\* the dates of the rows, in table order: sorted, and not
CliDates == {<<20050115, 20051215, 20060401>>, <<20051215, 20050115, 20060401>>}

\* one temperature column: of city UT, or of DE_BILT under the name the
\* summary does not look for
CliTables ==
    {Frame(<<DATE, c>>, [i \in 1..Len(dates) |-> <<RawDate(dates[i]), Num(i)>>]) :
        c \in {UT_temp_mean, DE_temp_mean}, dates \in CliDates}

Y2005 == <<"2","0","0","5">>

\* the lines the user may type
CliTokens ==
    {<<"u","t">>, <<"d","e","_","b","i","l","t">>, <<"q">>, <<"x">>,
     <<"0">>, <<"1">>, <<"2">>, <<"3">>, <<"4">>, <<"5">>, <<"6">>, <<" ","7">>,
     <<"1","3">>, Y2005, <<"-","1">>,
     Iso(Y2005, <<"0","2">>, <<"0","1">>), Iso(Y2005, <<"1","2">>, <<"1","5">>),
     Iso(Y2005, <<"0","2">>, <<"3","0">>),
     Winter, <<"F","A","L","L">>}

InitCli == InitWith(CliTables)

NextCli ==
    \/ Construct
    \/ RunCli
    \/ \E raw \in CliTokens : Ask(raw)
    \/ CliFilter
    \/ CliSummary

SpecCli == InitCli /\ [][NextCli]_vars

----------------------------------------------------------------------------
(* City derivation: C1, C2, C3 *)

FirstUnderscore(name) ==
    CHOOSE i \in 1..Len(name) : name[i] = "_" /\ \A j \in 1..(i - 1) : name[j] # "_"

BeforeFirstUnderscore(name) == SubSeq(name, 1, FirstUnderscore(name) - 1)

\* the city code a column name stands for, DE read as DE_BILT
CodeOf(name) ==
    IF BeforeFirstUnderscore(name) = DE THEN DE_BILT ELSE BeforeFirstUnderscore(name)

Elems(s) == {s[i] : i \in 1..Len(s)}

TableColumns == dataset._data.columns

\* C1: the cities get_cities returns are exactly the substrings before the
\* first underscore of the column names that contain one, with DE replaced
\* by DE_BILT; a column name without an underscore contributes no city.
C1_CitiesArePrefixes ==
    ret.op = "get_cities" =>
        Elems(ret.value) = {CodeOf(c) : c \in {n \in Elems(TableColumns) : ContainsUnderscore(n)}}

C1_Witness ==
    /\ ret.op = "get_cities"
    /\ DE_BILT \in Elems(ret.value)
    /\ Cardinality(Elems(ret.value)) >= 2
    /\ MONTH \in Elems(TableColumns)

\* C2: after construction has_city(c), answered from the cached list, holds
\* exactly when c is in the list get_cities() derives from the columns; with
\* a column of prefix DE, has_city("DE") is false and has_city("DE_BILT") true.
C2_HasCityMatchesGetCities ==
    Ready =>
        /\ \A c \in CityProbes \cup Elems(dataset._cities) :
                has_city(dataset, c) <=> InSeq(c, get_cities(dataset._data))
        /\ ret.op = "has_city" => ret.value = InSeq(ret.args[1], get_cities(dataset._data))
        /\ (\E n \in Elems(TableColumns) :
                ContainsUnderscore(n) /\ BeforeFirstUnderscore(n) = DE)
             => ~has_city(dataset, DE) /\ has_city(dataset, DE_BILT)

C2_Witness ==
    /\ ret.op = "has_city"
    /\ ret.args = <<DE_BILT>>
    /\ ret.value = TRUE
    /\ DE_temp_mean \in Elems(TableColumns)

\* the position of the first column that produces the city
FirstProducer(city) ==
    MinOf({j \in 1..Len(TableColumns) :
            ContainsUnderscore(TableColumns[j]) /\ CodeOf(TableColumns[j]) = city})

\* C3: the city list holds no code twice and lists the codes in the order of
\* the first column producing each, the DE to DE_BILT remapping included.
C3_CitiesUniqueInFirstOccurrenceOrder ==
    ret.op = "get_cities" =>
        \A i, j \in 1..Len(ret.value) :
            i < j => /\ ret.value[i] # ret.value[j]
                     /\ FirstProducer(ret.value[i]) < FirstProducer(ret.value[j])

\* two columns of prefix DE between which another city's column stands
C3_Witness ==
    /\ ret.op = "get_cities"
    /\ TableColumns = <<DE_temp_mean, UT_temp_mean, DE_BILT_temp_mean>>
    /\ ret.value = <<DE_BILT, UT>>

----------------------------------------------------------------------------
(* Construction failures: C7 *)

CalendarDays == <<31, 28, 31, 30, 31, 30, 31, 31, 30, 31, 30, 31>>

\* n = YYYYMMDD names a day of the calendar
IsCalendarDate(n) ==
    LET y == n \div 10000
        m == (n \div 100) % 100
        d == n % 100
    IN  /\ y >= 1
        /\ m >= 1 /\ m <= 12
        /\ d >= 1
        /\ d <= (IF m = 2 /\ IsLeap(y) THEN 29 ELSE CalendarDays[m])

DateAbsent(df) == \A j \in 1..Len(df.columns) : df.columns[j] # DATE

DateInvalid(df) ==
    /\ ~DateAbsent(df)
    /\ \E i \in 1..Len(df.rows) :
            LET cell == df.rows[i][ColumnPos(df, DATE)]
            IN  cell.kind = "int" /\ ~IsCalendarDate(cell.num)

Constructing == dataset.state = "new" /\ dataset'.state # "new"

----------------------------------------------------------------------------
(* Filters: C8, C9, C10 *)

Between(t, lo, hi) == Ordinal(lo) <= Ordinal(t) /\ Ordinal(t) <= Ordinal(hi)

\* the rows of the dataset's table at the positions in keep, in table order
RECURSIVE RowsAt(_, _)
RowsAt(keep, n) ==
    IF n = 0 THEN [columns |-> dataset._data.columns, index |-> <<>>, rows |-> <<>>]
    ELSE LET rest == RowsAt(keep, n - 1)
         IN  IF n \in keep
             THEN [rest EXCEPT !.index = Append(@, dataset._data.index[n]),
                               !.rows = Append(@, dataset._data.rows[n])]
             ELSE rest

RowsWhere(keep) == RowsAt(keep, Len(dataset._data.rows))

\* C8: for valid dates start and end, and rows in any order,
\* filter_by_date_range returns exactly the rows dated within [start, end],
\* an empty table when there is none or start > end, and raises nothing.
C8_DateRangeReturnsRowsInRange ==
    (/\ ret.op = "filter_by_date_range"
     /\ ParsesDate(ret.args[1])
     /\ ParsesDate(ret.args[2]))
    => /\ raised = None
       /\ ret.value = RowsWhere({i \in 1..Len(dataset._data.index) :
                Between(dataset._data.index[i], ToDatetime(ret.args[1]), ToDatetime(ret.args[2]))})

SeasonMonths(s) ==
    CASE s = Spring -> {3, 4, 5}
      [] s = Summer -> {6, 7, 8}
      [] s = Fall -> {9, 10, 11}
      [] s = Winter -> {12, 1, 2}

IsSeason(token) == Lower(token) \in {Spring, Summer, Fall, Winter}

C10_OtherTokenFailsWithInvalidArgument ==
    (ret.op = "filter_by_season" /\ ~IsSeason(ret.args[1]))
    => raised.type = "InvalidArgument" /\ ret.value = None

\* C10 as amended: any other token fails with ValueError (message "Invalid
\* season. Must be one of: 'spring', 'summer', 'fall', 'winter'."), and no
\* table is returned.
C10_OtherTokenFailsWithValueError ==
    (ret.op = "filter_by_season" /\ ~IsSeason(ret.args[1]))
    => /\ raised = Exception("ValueError",
            <<"Invalid season. Must be one of: 'spring', 'summer', 'fall', 'winter'.">>)
       /\ ret.value = None

C10_Witness ==
    /\ ret.op = "filter_by_season"
    /\ ret.args = << <<"b","o","g","u","s">> >>
    /\ raised.type = "ValueError"
    /\ Len(dataset._data.rows) >= 1

----------------------------------------------------------------------------
(* Statistics: C4, C5, C6 *)

ColumnNotFound(n) == Exception("ValueError", <<"Column '", n, "' not found in dataset">>)

\* the table a call is about: the override when one is passed
UsedTable(data) == IF data = NoData THEN dataset._data ELSE data
OtherTable(data) == IF data = NoData THEN NoFrame ELSE dataset._data

\* C4: a statistic called with column n raises ValueError "Column 'n' not
\* found in dataset" exactly when n is no column of the table of that call
\* (the override when one is passed, else the engine's own table), whether
\* or not n is a column of the other table.
C4_ValidatesAgainstTableInUse ==
    ret.op \in StatOps =>
        LET n == ret.args[1]
            present == n \in Elems(UsedTable(ret.args[2]).columns)
        IN  /\ ~present => raised = ColumnNotFound(n)
            /\ present => raised = None

\* range on a view that lacks a column the engine's own table has
C4_Witness ==
    /\ ret.op = "range"
    /\ ret.args[2] # NoData
    /\ ret.args[1] \in Elems(OtherTable(ret.args[2]).columns)
    /\ ret.args[1] \notin Elems(UsedTable(ret.args[2]).columns)
    /\ raised = ColumnNotFound(ret.args[1])

SummaryBase == gen.city \o TempMeanSuffix

\* the seven entries of the summary of the generator's city and table
ExpectedSummary ==
    << <<"Mean", mean(dataset, SummaryBase, gen.data)>>,
       <<"Median", median(dataset, SummaryBase, gen.data)>>,
       <<"Min", min(dataset, SummaryBase, gen.data)>>,
       <<"Max", max(dataset, SummaryBase, gen.data)>>,
       <<"Standard deviation", std_dev(dataset, SummaryBase, gen.data)>>,
       <<"Range", range(dataset, SummaryBase, gen.data)>>,
       <<"Mode", mode(dataset, SummaryBase, gen.data)>> >>

\* C5: when {city}_temp_mean is a column of the table in use, consuming the
\* summary to its end yields exactly the seven entries Mean, Median, Min, Max,
\* Standard deviation, Range, Mode, in this order, each with the value of the
\* statistic on that column of that table.
C5_SummaryYieldsSevenStatistics ==
    (gen.state # "none" /\ SummaryBase \in Elems(UsedTable(gen.data).columns)) =>
        /\ gen.state # "raised"
        /\ yielded = SubSeq(ExpectedSummary, 1, Len(yielded))
        /\ gen.state = "done" => Len(yielded) = 7

\* a summary consumed to its end over a view of the dataset with fewer rows
C5_Witness ==
    /\ gen.state = "done"
    /\ Len(yielded) = 7
    /\ gen.data # NoData
    /\ gen.data.columns = dataset._data.columns
    /\ Len(gen.data.rows) = 2
    /\ Len(dataset._data.rows) = 3
    /\ yielded[1][2] # yielded[3][2]
    /\ \A k \in 1..7 : yielded[k][2].kind # "nan"

\* C6: a validation failure met while the summary is consumed is raised to
\* the consumer by the request for the element where it occurs; the entries
\* delivered before it stay delivered.
C6_FailurePropagatesAtItsElement ==
    [][/\ (/\ gen.state = "suspended"
           /\ gen'.city = gen.city /\ gen'.data = gen.data
           /\ gen.pc < Len(SummaryYields)
           /\ SummaryBase \notin Elems(UsedTable(gen.data).columns))
          => /\ gen'.state = "raised"
             /\ raised' = ColumnNotFound(SummaryBase)
             /\ Len(yielded) = gen.pc
             /\ yielded' = yielded
       /\ (gen.state = "suspended" /\ gen'.state = "raised")
          => /\ raised'.type = "ValueError"
             /\ yielded' = yielded]_vars

\* a city the dataset knows (DE_BILT, from DE_temp_mean) without its column
C6_Witness ==
    /\ gen.state = "raised"
    /\ raised = ColumnNotFound(DE_BILT_temp_mean)
    /\ has_city(dataset, DE_BILT)
    /\ gen.data = NoData

----------------------------------------------------------------------------
(* Month filter: C11 *)

\* C11: for every integer m, filter_by_month(m) returns exactly the rows
\* whose date has month m, whatever their year; for m outside 1..12 the
\* result is empty and nothing is raised.
C11_MonthReturnsRowsOfThatMonth ==
    ret.op = "filter_by_month" =>
        /\ raised = None
        /\ ret.value = RowsWhere({i \in 1..Len(dataset._data.index) :
                dataset._data.index[i].month = ret.args[1]})
        /\ (ret.args[1] < 1 \/ ret.args[1] > 12) => ret.value.rows = <<>>

\* January rows of two years kept, a row of another month left out
C11_Witness ==
    /\ ret.op = "filter_by_month"
    /\ ret.args = <<1>>
    /\ Len(dataset._data.rows) = 3
    /\ Len(ret.value.rows) = 2
    /\ {ret.value.index[i].year : i \in 1..2} = {2019, 2020}

----------------------------------------------------------------------------
(* Mode: C12 *)

\* the cells of the column a statistic call is about
CalledCells == Column(UsedTable(ret.args[2]), ret.args[1])

\* how many cells of the called column hold the number v
Frequency(v) ==
    Cardinality({i \in 1..Len(CalledCells) :
        CalledCells[i].kind = "num" /\ CalledCells[i].num = v})

PresentNumbers ==
    {CalledCells[i].num : i \in {k \in 1..Len(CalledCells) : CalledCells[k].kind = "num"}}

MostFrequent == {v \in PresentNumbers : \A w \in PresentNumbers : Frequency(v) >= Frequency(w)}

\* C12: mode(column) returns the smallest of the values that occur most
\* often in the column, and not-a-number, without raising, when the column
\* has no non-missing value.
C12_ModeIsSmallestMostFrequent ==
    (ret.op = "mode" /\ ret.args[1] \in Elems(UsedTable(ret.args[2]).columns)) =>
        /\ raised = None
        /\ PresentNumbers = {} => ret.value = NaN
        /\ PresentNumbers # {} =>
                /\ ret.value.kind = "num" /\ ret.value.den = 1
                /\ ret.value.num \in MostFrequent
                /\ \A v \in MostFrequent : ret.value.num <= v

\* a tie between 2 and 1 in a column whose first cell is 2
C12_Witness ==
    /\ ret.op = "mode"
    /\ raised = None
    /\ Len(CalledCells) >= 2
    /\ CalledCells[1] = Num(2)
    /\ MostFrequent = {1, 2}
    /\ ret.value = Num(1)

----------------------------------------------------------------------------
(* Construction keeps the table: C13 *)

\* C13: a Dataset can be constructed from any table, and afterwards
\* get_data() equals the table that was passed in, with as many column
\* names as the input has columns and the same rows.
C13_GetDataEqualsInput ==
    [][Constructing =>
        /\ dataset'.state = "ready"
        /\ get_data(dataset').columns = input.columns
        /\ get_data(dataset').rows = input.rows
        /\ Len(get_column_names(dataset')) = Len(input.columns)]_vars

----------------------------------------------------------------------------
(* The summary is all or nothing: C16 *)

\* {city}_temp_mean is a column of the table the generator works on
SummaryColumnPresent == SummaryBase \in Elems(UsedTable(gen.data).columns)

\* C16: calling temperature_summary never raises by itself; consumed, the
\* sequence fails with the column-not-found error at the first element,
\* nothing yielded, when {city}_temp_mean is absent from the table in use,
\* and yields all seven entries when it is present; no run yields between
\* one and six entries and then fails.
C16_SummaryIsAllOrNothing ==
    /\ ret.op = "temperature_summary" =>
            raised = None /\ gen.state = "suspended" /\ yielded = <<>>
    /\ gen.state = "raised" =>
            /\ ~SummaryColumnPresent
            /\ yielded = <<>>
            /\ raised = ColumnNotFound(SummaryBase)
    /\ gen.state = "done" => SummaryColumnPresent /\ Len(yielded) = 7
    /\ (gen.state = "suspended" /\ ~SummaryColumnPresent) => yielded = <<>>

\* the summary of a city whose column the engine's own table has, asked
\* over a view that lacks it, fails at the first element
C16_Witness ==
    /\ gen.state = "raised"
    /\ yielded = <<>>
    /\ gen.data # NoData
    /\ SummaryBase \in Elems(dataset._data.columns)
    /\ SummaryBase \notin Elems(gen.data.columns)

----------------------------------------------------------------------------
(* The command-line loop: C14, C15 *)

\* C14: inside run_cli every ValueError the core raises after a city has been
\* accepted, by a filter call or while the summary is consumed, becomes a
\* message and the loop goes on to the next prompt; none escapes run_cli.
C14_NoValueErrorEscapes ==
    /\ cli.pc = "escaped" => raised.type # "ValueError"
    /\ (cli.pc \in AskPcs \cup {"filter", "summary", "returned"}) => raised = None

\* the line last read passes the parser and the validator of its prompt
LastLinePasses ==
    /\ Parses(Parser(cli.prompt), cli.raw)
    /\ \/ Validator(cli.prompt) = "None"
       \/ Validates(Validator(cli.prompt), dataset, Parse(Parser(cli.prompt), cli.raw))

LastErrorLine == Line(ErrorMsg(cli.prompt), <<>>)

\* C15: ask_until_valid returns only a value the parser produced without
\* raising and the validator, when given, accepts; on a line that fails
\* either it prints error_msg once and prompts again; it returns at the
\* first line that passes both.
C15_AskReturnsFirstAcceptableLine ==
    cli.ask # "none" =>
        IF LastLinePasses
        THEN /\ cli.ask = "returned"
             /\ cli.val = Parse(Parser(cli.prompt), cli.raw)
             /\ LastErrorLine \notin Elems(cli.printed)
        ELSE /\ cli.ask = "again"
             /\ cli.pc = cli.prompt
             /\ cli.printed = <<LastErrorLine>>

\* 13 typed at the month prompt: parsed, refused, asked again
C15_Witness ==
    /\ cli.ask = "again"
    /\ cli.prompt = "month"
    /\ cli.raw = <<"1","3">>
    /\ cli.val = 13
    /\ cli.pc = "month"
    /\ cli.printed = <<Line("Month must be 1-12", <<>>)>>

============================================================================
